---- MODULE Spec2Model ----
(***************************************************************************)
(* Model of scripts/us-treasury-auctions-to-ical.py: one run of the        *)
(* pipeline fetch -> filter -> generate -> save -> (git add, diff, commit, *)
(* push).                                                                  *)
(*                                                                         *)
(* Text is a sequence of chunks (strings).  A literal of the source is one *)
(* chunk; a date string of the feed is spelled character by character so   *)
(* that str.replace, slicing and datetime.fromisoformat work on it as they *)
(* do in Python.  An f-string is the concatenation of its pieces.          *)
(* A security (a Python dict) is a function from the keys it has to text.  *)
(* A datetime is <<ordinal day, second of day>> (sub-second part dropped). *)
(***************************************************************************)
EXTENDS Integers, Sequences, FiniteSets, TLC

\* ------------------------------------------------------------------ bounds
MaxRecords == 2      \* longest feed the API returns
MaxDaysBack == 2     \* largest --days-back
MaxKinds == 2        \* most --event-type options on the command line
MaxDay == 1          \* the clock is read on 2024-01-10 + 0..MaxDay
TicksPerDay == 2     \* times of day the clock can show (evenly spaced)

\* ------------------------------------------------------------------- text
Digit == <<"0", "1", "2", "3", "4", "5", "6", "7", "8", "9">>

DigitValue(c) ==
    IF \E i \in 1..10 : Digit[i] = c
    THEN (CHOOSE i \in 1..10 : Digit[i] = c) - 1
    ELSE -1

\* int() of a run of decimal digits; -1 when some character is no digit
RECURSIVE ParseInt(_)
ParseInt(s) ==
    IF Len(s) = 0 THEN 0
    ELSE LET hi == ParseInt(SubSeq(s, 1, Len(s) - 1))
             lo == DigitValue(s[Len(s)])
         IN IF hi < 0 \/ lo < 0 THEN -1 ELSE hi * 10 + lo

IsPrefixAt(s, old, i) ==
    /\ i + Len(old) - 1 <= Len(s)
    /\ \A k \in 1..Len(old) : s[i + k - 1] = old[k]

\* str.replace(old, ""): drops every non-overlapping occurrence, left to right
RECURSIVE Remove(_, _)
Remove(s, old) ==
    IF Len(s) = 0 THEN s
    ELSE IF IsPrefixAt(s, old, 1)
         THEN Remove(SubSeq(s, Len(old) + 1, Len(s)), old)
         ELSE <<s[1]>> \o Remove(SubSeq(s, 2, Len(s)), old)

\* s[:n]
Slice(s, n) == SubSeq(s, 1, IF Len(s) < n THEN Len(s) ELSE n)

Midnight == <<"T", "0", "0", ":", "0", "0", ":", "0", "0">>

\* ------------------------------------------------------------------ dates
SecondsPerDay == 86400

IsLeap(y) == y % 4 = 0 /\ (y % 100 # 0 \/ y % 400 = 0)

DaysInMonth(y, m) ==
    IF m = 2 THEN (IF IsLeap(y) THEN 29 ELSE 28)
    ELSE IF m \in {4, 6, 9, 11} THEN 30 ELSE 31

RECURSIVE DaysBeforeMonth(_, _)
DaysBeforeMonth(y, m) ==
    IF m = 1 THEN 0 ELSE DaysBeforeMonth(y, m - 1) + DaysInMonth(y, m - 1)

DaysBeforeYear(y) ==
    (y - 1) * 365 + ((y - 1) \div 4) - ((y - 1) \div 100) + ((y - 1) \div 400)

\* date.toordinal()
Ordinal(y, m, d) == DaysBeforeYear(y) + DaysBeforeMonth(y, m) + d

ValueError == [ok |-> FALSE, exc |-> "ValueError"]
KeyError == [ok |-> FALSE, exc |-> "KeyError"]
Ok(v) == [ok |-> TRUE, val |-> v]

\* an exception raised while computing r passes through; otherwise F goes on
\* with the value
Bind(r, F(_)) == IF r.ok THEN F(r.val) ELSE r

\* datetime(year, month, day, hour, minute, second): range checks
datetime(y, m, d, hh, mm, ss) ==
    IF /\ y >= 1 /\ m \in 1..12 /\ d >= 1 /\ d <= DaysInMonth(y, m)
       /\ hh \in 0..23 /\ mm \in 0..59 /\ ss \in 0..59
    THEN Ok(<<Ordinal(y, m, d), hh * 3600 + mm * 60 + ss>>)
    ELSE ValueError

\* datetime.fromisoformat on "YYYY-MM-DD" and "YYYY-MM-DD?HH:MM:SS"
\* (any one character separates date and time); every other text is
\* rejected with ValueError.
fromisoformat(s) ==
    IF Len(s) = 10 /\ s[5] = "-" /\ s[8] = "-"
    THEN datetime(ParseInt(SubSeq(s, 1, 4)), ParseInt(SubSeq(s, 6, 7)),
                  ParseInt(SubSeq(s, 9, 10)), 0, 0, 0)
    ELSE IF Len(s) = 19 /\ s[5] = "-" /\ s[8] = "-"
            /\ s[14] = ":" /\ s[17] = ":"
    THEN datetime(ParseInt(SubSeq(s, 1, 4)), ParseInt(SubSeq(s, 6, 7)),
                  ParseInt(SubSeq(s, 9, 10)), ParseInt(SubSeq(s, 12, 13)),
                  ParseInt(SubSeq(s, 15, 16)), ParseInt(SubSeq(s, 18, 19)))
    ELSE ValueError

parse_date(date_str) == fromisoformat(Remove(date_str, Midnight))

\* datetime - timedelta(days=n)
MinusDays(dt, n) == <<dt[1] - n, dt[2]>>

\* datetime >= datetime
DtGeq(a, b) == a[1] > b[1] \/ (a[1] = b[1] /\ a[2] >= b[2])

\* datetime.date()
DateOf(dt) == dt[1]

\* ------------------------------------------------------------ event mapper
\* "\n".join(parts)
RECURSIVE Join(_)
Join(parts) ==
    IF Len(parts) = 0 THEN <<>>
    ELSE IF Len(parts) = 1 THEN parts[1]
    ELSE parts[1] \o <<"\n">> \o Join(Tail(parts))

\* security.get(key, default)
Get(security, key, default) ==
    IF key \in DOMAIN security THEN security[key] ELSE default

\* truth value of security.get(key): None and "" are false
Truthy(security, key) == key \in DOMAIN security /\ Len(security[key]) > 0

\* OptionalLine that leaves the line blank when the value is missing
OptionalLine_Blank(security, key, label) ==
    IF Truthy(security, key) THEN << <<label>> \o security[key] >>
    ELSE << <<label>> >>

\* the line appended under "if value := security.get(key)"
OptionalLine(security, key, label) ==
    IF Truthy(security, key) THEN << <<label>> \o security[key] >> ELSE <<>>

\* as OptionalLine, with the value cut to its first n characters
OptionalLineSliced(security, key, label, n) ==
    IF Truthy(security, key)
    THEN << <<label>> \o Slice(security[key], n) >>
    ELSE <<>>

\* some key of keys is absent: subscripting it raises KeyError
MissingKey(security, keys) == \E i \in 1..Len(keys) : keys[i] \notin DOMAIN security

create_announcement_event(security, utcnow) ==
    IF "announcementDate" \notin DOMAIN security THEN KeyError
    ELSE Bind(parse_date(security["announcementDate"]),
      LAMBDA announcement_date :
         IF MissingKey(security,
                   <<"cusip", "securityTerm", "securityType", "auctionDate">>)
         THEN KeyError
         ELSE
           Ok([uid |-> security["cusip"]
                            \o <<"-announcement@treasurydirect.gov">>,
                  dtstamp |-> utcnow,
                  dtstart |-> DateOf(announcement_date),
                  summary |-> security["securityTerm"] \o <<" ">>
                              \o security["securityType"]
                              \o <<" Auction Announced">>,
                  description |-> Join(
                     << <<"Auction Date: ">> \o security["auctionDate"],
                        <<"CUSIP: ">> \o security["cusip"],
                        <<"Offering Amount: $">>
                           \o Get(security, "offeringAmount", <<"TBD">>) >>
                     \o OptionalLineSliced(security, "maturityDate",
                                           "Maturity Date: ", 10)),
                  categories |-> << <<"Treasury">>, <<"Announcement">>,
                                    security["securityType"] >>]))

\* create_auction_event with the auction date made part of the uid
create_auction_event_DatedUid(security, utcnow) ==
    IF "auctionDate" \notin DOMAIN security THEN KeyError
    ELSE Bind(parse_date(security["auctionDate"]),
      LAMBDA auction_date :
         IF "announcementDate" \notin DOMAIN security THEN KeyError
         ELSE IF ~parse_date(security["announcementDate"]).ok THEN ValueError
         ELSE IF MissingKey(security,
                   <<"cusip", "securityTerm", "securityType">>)
         THEN KeyError
         ELSE
           Ok([uid |-> security["cusip"] \o <<"-">>
                            \o Slice(security["auctionDate"], 10)
                            \o <<"-auction@treasurydirect.gov">>,
                  dtstamp |-> utcnow,
                  dtstart |-> DateOf(auction_date),
                  summary |-> security["securityTerm"] \o <<" ">>
                              \o security["securityType"] \o <<" Auction">>,
                  description |-> Join(
                     << <<"CUSIP: ">> \o security["cusip"],
                        <<"Security Term: ">> \o security["securityTerm"],
                        <<"Offering Amount: $">>
                           \o Get(security, "offeringAmount", <<"TBD">>) >>
                     \o OptionalLine(security, "closingTimeCompetitive",
                                     "Competitive Closing: ")
                     \o OptionalLine(security, "closingTimeNoncompetitive",
                                     "Non-Competitive Closing: ")
                     \o OptionalLine(security, "issueDate", "Issue Date: ")
                     \o OptionalLine(security, "maturityDate",
                                     "Maturity Date: ")),
                  categories |-> << <<"Treasury">>, <<"Auction">>,
                                    security["securityType"] >>]))

create_auction_event(security, utcnow) ==
    IF "auctionDate" \notin DOMAIN security THEN KeyError
    ELSE Bind(parse_date(security["auctionDate"]),
      LAMBDA auction_date :
         IF "announcementDate" \notin DOMAIN security THEN KeyError
         ELSE IF ~parse_date(security["announcementDate"]).ok THEN ValueError
         ELSE IF MissingKey(security,
                   <<"cusip", "securityTerm", "securityType">>)
         THEN KeyError
         ELSE
           Ok([uid |-> security["cusip"]
                            \o <<"-auction@treasurydirect.gov">>,
                  dtstamp |-> utcnow,
                  dtstart |-> DateOf(auction_date),
                  summary |-> security["securityTerm"] \o <<" ">>
                              \o security["securityType"] \o <<" Auction">>,
                  description |-> Join(
                     << <<"CUSIP: ">> \o security["cusip"],
                        <<"Security Term: ">> \o security["securityTerm"],
                        <<"Offering Amount: $">>
                           \o Get(security, "offeringAmount", <<"TBD">>) >>
                     \o OptionalLine(security, "closingTimeCompetitive",
                                     "Competitive Closing: ")
                     \o OptionalLine(security, "closingTimeNoncompetitive",
                                     "Non-Competitive Closing: ")
                     \o OptionalLine(security, "issueDate", "Issue Date: ")
                     \o OptionalLine(security, "maturityDate",
                                     "Maturity Date: ")),
                  categories |-> << <<"Treasury">>, <<"Auction">>,
                                    security["securityType"] >>]))

\* ------------------------------------------------------------------ filter
\* the loop of filter_securities over what is left of the list
RECURSIVE FilterLoop(_, _)
FilterLoop(securities, cutoff_date) ==
    IF Len(securities) = 0 THEN Ok(<<>>)
    ELSE IF "auctionDate" \notin DOMAIN Head(securities) THEN KeyError
    ELSE Bind(parse_date(Head(securities)["auctionDate"]),
      LAMBDA auction_date :
         Bind(FilterLoop(Tail(securities), cutoff_date),
           LAMBDA filtered :
              Ok(IF DtGeq(auction_date, cutoff_date)
                 THEN <<Head(securities)>> \o filtered
                 ELSE filtered)))

filter_securities(securities, days_back, now) ==
    FilterLoop(securities, MinusDays(now, days_back))

\* -------------------------------------------------------- calendar builder
\* x in event_types, for the tuple click passes
InTypes(x, event_types) == \E i \in 1..Len(event_types) : event_types[i] = x

\* what "if kind in event_types: calendar.add_component(event)" adds
AddComponent(wanted, event) ==
    IF wanted THEN Bind(event, LAMBDA e : Ok(<<e>>)) ELSE Ok(<<>>)

\* EventsOf looping over event_types: one event per requested entry, in the
\* order of the command line
EventsOf_InRequestOrder(security, event_types, utcnow) ==
    LET event(k) ==
           IF event_types[k] = "announcement"
           THEN create_announcement_event(security, utcnow)
           ELSE create_auction_event(security, utcnow)
    IN IF \E k \in DOMAIN event_types : ~event(k).ok
       THEN event(CHOOSE k \in DOMAIN event_types : ~event(k).ok)
       ELSE Ok([k \in DOMAIN event_types |-> event(k).val])

\* the events one security contributes, or the first exception raised
EventsOf(security, event_types, utcnow) ==
    Bind(AddComponent(InTypes("announcement", event_types),
                      create_announcement_event(security, utcnow)),
      LAMBDA announcement :
         Bind(AddComponent(InTypes("auction", event_types),
                           create_auction_event(security, utcnow)),
           LAMBDA auction : Ok(announcement \o auction)))

RECURSIVE GenerateLoop(_, _, _)
GenerateLoop(securities, event_types, utcnow) ==
    IF Len(securities) = 0 THEN Ok(<<>>)
    ELSE Bind(EventsOf(Head(securities), event_types, utcnow),
           LAMBDA first :
              Bind(GenerateLoop(Tail(securities), event_types, utcnow),
                LAMBDA rest : Ok(first \o rest)))

generate_calendar(securities, event_types, utcnow) ==
    Bind(GenerateLoop(securities, event_types, utcnow),
      LAMBDA components :
         Ok([prodid |-> <<"-//Treasury Auction Calendar//elmotec.github.io//">>,
             version |-> <<"2.0">>,
             components |-> components]))

\* ------------------------------------------------------------------ inputs
\* str(n).zfill(width), character by character
RECURSIVE Zfill(_, _)
Zfill(n, width) ==
    IF width = 0 THEN <<>>
    ELSE Zfill(n \div 10, width - 1) \o <<Digit[(n % 10) + 1]>>

\* the text "YYYY-MM-DD"
DateText(y, m, d) == Zfill(y, 4) \o <<"-">> \o Zfill(m, 2) \o <<"-">> \o Zfill(d, 2)

\* a date as the feed writes it: "2024-01-DDT00:00:00"
FeedDate(d) == DateText(2024, 1, d) \o Midnight

NotADate == <<"T", "B", "D">>

Without(security, key) ==
    [k \in DOMAIN security \ {key} |-> security[k]]

With(security, key, value) ==
    [k \in DOMAIN security \cup {key} |->
        IF k = key THEN value ELSE security[k]]

\* a security with the five required fields and nothing else
Required(cusip, auctionDate) ==
    [cusip |-> cusip,
     securityType |-> <<"Bill">>,
     securityTerm |-> <<"13-Week">>,
     announcementDate |-> FeedDate(4),
     auctionDate |-> auctionDate]

RequiredKeys ==
    {"cusip", "securityTerm", "securityType", "announcementDate", "auctionDate"}

Cusips == {<<"91282CJL6">>, <<"ABC123">>}

\* well-formed records: one security auctioned on 2024-01-08 and again on
\* 2024-01-10 (a reopening keeps its cusip), another on 2024-01-10
GoodSecurities ==
    {Required(<<"91282CJL6">>, FeedDate(d)) : d \in {8, 10}}
    \cup {Required(<<"ABC123">>, FeedDate(10))}

\* records that break the required-field contract, auctioned on 2024-01-08:
\* one required key absent, or a date that is no date
BadSecurities ==
    {Without(Required(<<"ABC123">>, FeedDate(8)), k) : k \in RequiredKeys}
    \cup {With(Required(<<"ABC123">>, FeedDate(8)), k, NotADate) :
             k \in {"announcementDate", "auctionDate"}}

FeedSecurities == GoodSecurities \cup BadSecurities

OptionalKeys ==
    {"offeringAmount", "maturityDate", "closingTimeCompetitive",
     "closingTimeNoncompetitive", "issueDate"}

\* a value the feed carries under an optional key
OptionalValue(key) ==
    CASE key = "offeringAmount" -> <<"58000000000">>
      [] key = "maturityDate" -> DateText(2024, 4, 11) \o Midnight
      [] key = "closingTimeCompetitive" -> <<"11:30 AM">>
      [] key = "closingTimeNoncompetitive" -> <<"11:00 AM">>
      [] key = "issueDate" -> FeedDate(11)

\* how an optional key shows up: not at all, as "" (maturityDate only), or
\* with a value
Presence ==
    {p \in [OptionalKeys -> {"absent", "empty", "value"}] :
        \A k \in OptionalKeys : p[k] = "empty" => k = "maturityDate"}

\* a well-formed record auctioned on 2024-01-10 with optional fields as p says
Optional(cusip, p) ==
    LET required == Required(cusip, FeedDate(10))
    IN [k \in DOMAIN required \cup {o \in OptionalKeys : p[o] # "absent"} |->
           IF k \in DOMAIN required THEN required[k]
           ELSE IF p[k] = "empty" THEN <<>>
           ELSE OptionalValue(k)]

MapperSecurities == {Optional(c, p) : c \in Cusips, p \in Presence}

\* one record with optional fields, or two records with none
MapperFeeds ==
    {<<s>> : s \in MapperSecurities}
    \cup {<<s, t>> : s \in GoodSecurities, t \in GoodSecurities}

SeqsUpTo(S, n) == UNION {[1..k -> S] : k \in 0..n}

\* feeds of well-formed and malformed records
DataFeeds == SeqsUpTo(FeedSecurities, MaxRecords)

\* feeds for the whole run: a record of today, an older one, and an older
\* one without cusip
Feeds ==
    SeqsUpTo({Required(<<"91282CJL6">>, FeedDate(10)),
              Required(<<"91282CJL6">>, FeedDate(8)),
              Without(Required(<<"ABC123">>, FeedDate(8)), "cusip")},
             MaxRecords)

Kinds == {"announcement", "auction"}

\* click: --event-type is repeatable and never empty (default ("auction",))
EventTypeTuples == SeqsUpTo(Kinds, MaxKinds) \ {<<>>}

Today == Ordinal(2024, 1, 10)

Instants ==
    {<<Today + d, t * (SecondsPerDay \div TicksPerDay)>> :
        d \in 0..MaxDay, t \in 0..(TicksPerDay - 1)}

\* subprocess return codes of git: success, difference / failure, fatal
GitReturnCodes == {0, 1, 128}

NoCalendar == [prodid |-> <<>>, version |-> <<>>, components |-> <<>>]

\* Calendar.to_ical(): the bytes the icalendar library writes for cal.  The
\* library is not part of the repository; its output is kept as a value that
\* is determined by, and determines, the calendar it was made from.
to_ical(cal) == <<"BEGIN:VCALENDAR", cal, "END:VCALENDAR">>

\* what is at OUTPUT_FILE before the run: the bytes of an earlier run
PriorFile == [exists |-> TRUE, content |-> <<"BEGIN:VCALENDAR">>]

\* ------------------------------------------------------------------- state
VARIABLES
    commit,        \* --commit
    days_back,     \* --days-back
    event_types,   \* --event-type, in command-line order
    now,           \* what datetime.now() returned, <<0, 0>> before it is called
    response,      \* what response.json() returned
    securities,    \* main's variable securities
    cutoff_date,   \* filter_securities' cutoff_date
    calendar,      \* main's variable calendar
    output_file,   \* OUTPUT_FILE on disk
    file_writes,   \* number of write_bytes calls
    requests_get,  \* number of requests.get calls
    git_calls,     \* the run_git_command calls so far, <<command, returncode>>
    log,           \* logging records, <<level, message>>
    exception,     \* the exception that ended the run, "" if none
    exit_code,     \* process exit status, -1 while running
    pc             \* position in main

vars == <<commit, days_back, event_types, now, response, securities,
          cutoff_date, calendar, output_file, file_writes, requests_get,
          git_calls, log, exception, exit_code, pc>>

inputs == <<commit, days_back, event_types>>

Init ==
    /\ commit \in BOOLEAN
    /\ days_back \in 0..MaxDaysBack
    /\ event_types \in EventTypeTuples
    /\ now = <<0, 0>>
    /\ response = <<>>
    /\ securities = <<>>
    /\ cutoff_date = <<0, 0>>
    /\ calendar = NoCalendar
    /\ output_file = PriorFile
    /\ file_writes = 0
    /\ requests_get = 0
    /\ git_calls = <<>>
    /\ log = <<>>
    /\ exception = ""
    /\ exit_code = -1
    /\ pc = "fetch"

Info(msg) == <<"INFO", msg>>
Error(msg) == <<"ERROR", msg>>

\* an exception nobody catches: traceback, exit status 1
Raise(exc) ==
    /\ exception' = exc
    /\ exit_code' = 1
    /\ pc' = "exit"

\* sys.exit(1)
SysExit ==
    /\ exception' = "SystemExit"
    /\ exit_code' = 1
    /\ pc' = "exit"

\* main returns: "Done!", exit status 0
Done(messages) ==
    /\ log' = log \o messages \o <<Info("Done!")>>
    /\ exit_code' = 0
    /\ pc' = "done"
    /\ UNCHANGED exception

\* FetchError with the except branch returning an empty list instead of exiting
FetchError_ReturnsEmpty ==
    /\ pc = "fetch"
    /\ requests_get' = requests_get + 1
    /\ log' = log \o <<Info("Fetching Treasury auction data..."),
                       Error("Error fetching Treasury data")>>
    /\ pc' = "filter"
    /\ UNCHANGED <<inputs, now, response, securities, cutoff_date, calendar,
                   output_file, file_writes, git_calls, exception, exit_code>>

\* fetch_treasury_data: requests.get or raise_for_status raises
FetchError ==
    /\ pc = "fetch"
    /\ requests_get' = requests_get + 1
    /\ log' = log \o <<Info("Fetching Treasury auction data..."),
                       Error("Error fetching Treasury data")>>
    /\ SysExit
    /\ UNCHANGED <<inputs, now, response, securities, cutoff_date, calendar,
                   output_file, file_writes, git_calls>>

\* fetch_treasury_data: the request succeeds and returns one of feeds
Fetch(feeds) ==
    /\ pc = "fetch"
    /\ \E feed \in feeds :
          /\ response' = feed
          /\ securities' = feed
    /\ requests_get' = requests_get + 1
    /\ log' = log \o <<Info("Fetching Treasury auction data..."),
                       Info("Found announced securities")>>
    /\ pc' = "filter"
    /\ UNCHANGED <<inputs, now, cutoff_date, calendar, output_file, file_writes,
                   git_calls, exception, exit_code>>

FetchOk == Fetch(Feeds)

FilterSecurities ==
    /\ pc = "filter"
    /\ \E clock \in Instants :
          /\ now' = clock
          /\ cutoff_date' = MinusDays(clock, days_back)
          /\ \E filtered \in {filter_securities(securities, days_back, clock)} :
                IF filtered.ok
                THEN /\ securities' = filtered.val
                     /\ log' = log \o <<Info("Filtering securities"),
                                        Info("After filtering")>>
                     /\ pc' = "generate"
                     /\ UNCHANGED <<exception, exit_code>>
                ELSE /\ log' = log \o <<Info("Filtering securities")>>
                     /\ Raise(filtered.exc)
                     /\ UNCHANGED securities
    /\ UNCHANGED <<inputs, response, calendar, output_file, file_writes,
                   requests_get, git_calls>>

GenerateCalendar ==
    /\ pc = "generate"
    /\ log' = log \o <<Info("Generating calendar...")>>
    /\ \E generated \in {generate_calendar(securities, event_types, now)} :
          IF generated.ok
          THEN /\ calendar' = generated.val
               /\ pc' = "save"
               /\ UNCHANGED <<exception, exit_code>>
          ELSE /\ Raise(generated.exc)
               /\ UNCHANGED calendar
    /\ UNCHANGED <<inputs, now, response, securities, cutoff_date, output_file,
                   file_writes, requests_get, git_calls>>

SaveCalendar ==
    /\ pc = "save"
    /\ output_file' = [exists |-> TRUE, content |-> to_ical(calendar)]
    /\ file_writes' = file_writes + 1
    /\ log' = log \o <<Info("Calendar saved")>>
    /\ pc' = "commit?"
    /\ UNCHANGED <<inputs, now, response, securities, cutoff_date, calendar,
                   requests_get, git_calls, exception, exit_code>>

\* save_calendar: mkdir or the open for writing raises OSError
SaveError ==
    /\ pc = "save"
    /\ Raise("OSError")
    /\ UNCHANGED <<inputs, now, response, securities, cutoff_date, calendar,
                   output_file, file_writes, requests_get, git_calls, log>>

\* main, commit false
SkipCommit ==
    /\ pc = "commit?"
    /\ ~commit
    /\ Done(<<Info("Skipping commit (use --commit to enable)")>>)
    /\ UNCHANGED <<inputs, now, response, securities, cutoff_date, calendar,
                   output_file, file_writes, requests_get, git_calls>>

\* GitAdd run whatever --commit says
GitAdd_IgnoresFlag ==
    /\ pc = "commit?"
    /\ \E returncode \in GitReturnCodes :
          git_calls' = Append(git_calls, <<"add", returncode>>)
    /\ log' = log \o <<Info("Committing and pushing changes...")>>
    /\ pc' = "git diff"
    /\ UNCHANGED <<inputs, now, response, securities, cutoff_date, calendar,
                   output_file, file_writes, requests_get, exception,
                   exit_code>>

\* commit_and_push: git add; its result is dropped
GitAdd ==
    /\ pc = "commit?"
    /\ commit
    /\ \E returncode \in GitReturnCodes :
          git_calls' = Append(git_calls, <<"add", returncode>>)
    /\ log' = log \o <<Info("Committing and pushing changes...")>>
    /\ pc' = "git diff"
    /\ UNCHANGED <<inputs, now, response, securities, cutoff_date, calendar,
                   output_file, file_writes, requests_get, exception,
                   exit_code>>

\* GitDiff with the return code test inverted
GitDiff_Inverted ==
    /\ pc = "git diff"
    /\ \E returncode \in GitReturnCodes :
          /\ git_calls' = Append(git_calls, <<"diff", returncode>>)
          /\ IF returncode # 0
             THEN Done(<<Info("No changes to commit")>>)
             ELSE /\ pc' = "git commit"
                  /\ UNCHANGED <<log, exception, exit_code>>
    /\ UNCHANGED <<inputs, now, response, securities, cutoff_date, calendar,
                   output_file, file_writes, requests_get>>

\* GitDiff that gives up when the preceding git add failed
GitDiff_ChecksAdd ==
    /\ pc = "git diff"
    /\ IF git_calls[Len(git_calls)][2] # 0
       THEN /\ SysExit
            /\ UNCHANGED <<git_calls, log>>
       ELSE \E returncode \in GitReturnCodes :
              /\ git_calls' = Append(git_calls, <<"diff", returncode>>)
              /\ IF returncode = 0
                 THEN Done(<<Info("No changes to commit")>>)
                 ELSE /\ pc' = "git commit"
                      /\ UNCHANGED <<log, exception, exit_code>>
    /\ UNCHANGED <<inputs, now, response, securities, cutoff_date, calendar,
                   output_file, file_writes, requests_get>>

\* commit_and_push: git diff --cached --quiet
GitDiff ==
    /\ pc = "git diff"
    /\ \E returncode \in GitReturnCodes :
          /\ git_calls' = Append(git_calls, <<"diff", returncode>>)
          /\ IF returncode = 0
             THEN Done(<<Info("No changes to commit")>>)
             ELSE /\ pc' = "git commit"
                  /\ UNCHANGED <<log, exception, exit_code>>
    /\ UNCHANGED <<inputs, now, response, securities, cutoff_date, calendar,
                   output_file, file_writes, requests_get>>

\* commit_and_push: git commit
GitCommit ==
    /\ pc = "git commit"
    /\ \E returncode \in GitReturnCodes :
          /\ git_calls' = Append(git_calls, <<"commit", returncode>>)
          /\ IF returncode # 0
             THEN /\ log' = log \o <<Error("Error committing changes")>>
                  /\ SysExit
             ELSE /\ log' = log \o <<Info("Changes committed")>>
                  /\ pc' = "git push"
                  /\ UNCHANGED <<exception, exit_code>>
    /\ UNCHANGED <<inputs, now, response, securities, cutoff_date, calendar,
                   output_file, file_writes, requests_get>>

\* GitPush with the return code of git push dropped
GitPush_IgnoresFailure ==
    /\ pc = "git push"
    /\ \E returncode \in GitReturnCodes :
          /\ git_calls' = Append(git_calls, <<"push", returncode>>)
          /\ Done(<<Info("Changes pushed to remote")>>)
    /\ UNCHANGED <<inputs, now, response, securities, cutoff_date, calendar,
                   output_file, file_writes, requests_get>>

\* commit_and_push: git push origin main
GitPush ==
    /\ pc = "git push"
    /\ \E returncode \in GitReturnCodes :
          /\ git_calls' = Append(git_calls, <<"push", returncode>>)
          /\ IF returncode # 0
             THEN /\ log' = log \o <<Error("Error pushing changes")>>
                  /\ SysExit
             ELSE Done(<<Info("Changes pushed to remote")>>)
    /\ UNCHANGED <<inputs, now, response, securities, cutoff_date, calendar,
                   output_file, file_writes, requests_get>>

\* run_git_command: subprocess.run cannot start git and raises OSError
GitSpawnError ==
    /\ pc \in {"git diff", "git commit", "git push"}
    /\ Raise("OSError")
    /\ UNCHANGED <<inputs, now, response, securities, cutoff_date, calendar,
                   output_file, file_writes, requests_get, git_calls, log>>

Next ==
    \/ FetchError
    \/ FetchOk
    \/ FilterSecurities
    \/ GenerateCalendar
    \/ SaveCalendar
    \/ SaveError
    \/ SkipCommit
    \/ GitAdd
    \/ GitDiff
    \/ GitCommit
    \/ GitPush
    \/ GitSpawnError

Spec == Init /\ [][Next]_vars

\* runs without --commit
InitNoCommit == Init /\ ~commit

\* the run without publishing, on feeds of well-formed and malformed records
FetchOkData == Fetch(DataFeeds)

NextData ==
    \/ FetchOkData
    \/ FilterSecurities
    \/ GenerateCalendar
    \/ SaveCalendar
    \/ SkipCommit

SpecData == InitNoCommit /\ [][NextData]_vars

\* the run up to the built calendar, on feeds that exercise the event mapper
FetchOkMapper == Fetch(MapperFeeds)

NextMapper ==
    \/ FetchOkMapper
    \/ FilterSecurities
    \/ GenerateCalendar

SpecMapper == InitNoCommit /\ [][NextMapper]_vars

\* ---------------------------------------------------------------- claims
Logged(entry) == \E i \in DOMAIN log : log[i] = entry

Ran(command) == \E i \in DOMAIN git_calls : git_calls[i][1] = command

FetchFailed == Logged(Error("Error fetching Treasury data"))

\* C1: when the fetch fails with a transport error the run ends with a
\* non-zero exit status after exactly one request, and no later step has run:
\* nothing was filtered or generated, the output file is as it was before the
\* run, no git command ran, and no step can run any more.
C1_TransportErrorIsFatal ==
    FetchFailed =>
        /\ pc = "exit"
        /\ exit_code > 0
        /\ requests_get = 1
        /\ Len(log) = 2
        /\ securities = <<>>
        /\ calendar = NoCalendar
        /\ file_writes = 0
        /\ output_file = PriorFile
        /\ git_calls = <<>>
        /\ ~ENABLED Next

C1_Witness ==
    /\ FetchFailed
    /\ commit
    /\ pc = "exit"
    /\ exit_code = 1

\* C2: git commands run only when --commit is set and only after the calendar
\* file has been written: in every state in which some git command has run,
\* the flag is on and the one write of the run has already happened with the
\* generated calendar as its content; with the flag off no git command runs.
C2_PublishOnlyAfterWrite ==
    /\ git_calls # <<>> =>
          /\ commit
          /\ file_writes = 1
          /\ output_file = [exists |-> TRUE, content |-> to_ical(calendar)]
          /\ git_calls[1][1] = "add"
    /\ ~commit => git_calls = <<>>
    /\ pc \in {"git diff", "git commit", "git push"} => commit /\ file_writes = 1

C2_Witness ==
    /\ commit
    /\ file_writes = 1
    /\ Ran("push")
    /\ Len(calendar.components) > 0

\* C3: when git diff --cached --quiet returns 0 the run is over at once with
\* exit status 0: the diff is the last git command, neither commit nor push
\* has run, and no exception ended the run.
C3_NoChangesIsSuccess ==
    \A i \in DOMAIN git_calls :
        git_calls[i] = <<"diff", 0>> =>
            /\ i = Len(git_calls)
            /\ ~Ran("commit")
            /\ ~Ran("push")
            /\ pc = "done"
            /\ exit_code = 0
            /\ exception = ""

C3_Witness ==
    /\ commit
    /\ git_calls = << <<"add", 0>>, <<"diff", 0>> >>
    /\ exit_code = 0
    /\ Logged(Info("No changes to commit"))

\* C4: once the diff has reported a difference, a failed commit ends the run
\* with a non-zero exit status before any push, a push runs only right after
\* a commit that returned 0, a failed push ends the run with a non-zero exit
\* status, and the run exits 0 only when commit and push both returned 0.
C4_CommitPushFailureIsFatal ==
    /\ \A i \in DOMAIN git_calls :
          /\ (git_calls[i][1] = "commit" /\ git_calls[i][2] # 0) =>
                i = Len(git_calls) /\ exit_code > 0 /\ pc = "exit"
          /\ git_calls[i][1] = "push" =>
                i > 1 /\ git_calls[i - 1] = <<"commit", 0>>
          /\ (git_calls[i][1] = "push" /\ git_calls[i][2] # 0) =>
                exit_code > 0 /\ pc = "exit"
    /\ (exit_code = 0 /\ \E i \in DOMAIN git_calls :
                            git_calls[i][1] = "diff" /\ git_calls[i][2] # 0) =>
          /\ \E i \in DOMAIN git_calls : git_calls[i] = <<"commit", 0>>
          /\ git_calls[Len(git_calls)] = <<"push", 0>>

C4_Witness ==
    /\ Len(git_calls) = 4
    /\ git_calls[2] = <<"diff", 1>>
    /\ git_calls[3] = <<"commit", 0>>
    /\ git_calls[4] = <<"push", 1>>
    /\ exit_code = 1

\* C10: the return code of git add is never inspected.  After git add has
\* returned, whatever it returned, the run goes on to the diff; a commit is
\* attempted exactly when the diff returned non-zero (1 or a git error code);
\* so a run whose git add failed and whose diff returned 0 ends with exit
\* status 0 with neither commit nor push run.
C10_StagingResultIgnored ==
    /\ Len(git_calls) = 1 =>
          /\ git_calls[1][1] = "add"
          /\ pc = "git diff" \/ exception = "OSError"
    /\ Len(git_calls) >= 2 =>
          /\ git_calls[2][1] = "diff"
          /\ git_calls[2][2] # 0 =>
                \/ pc = "git commit"
                \/ exception = "OSError" /\ Len(git_calls) = 2
                \/ Len(git_calls) >= 3 /\ git_calls[3][1] = "commit"
          /\ git_calls[2][2] = 0 => ~Ran("commit") /\ ~Ran("push")
    /\ (Len(git_calls) >= 2 /\ git_calls[1][2] # 0 /\ git_calls[2][2] = 0) =>
          /\ Len(git_calls) = 2
          /\ exit_code = 0
          /\ pc = "done"

C10_Witness ==
    /\ commit
    /\ git_calls = << <<"add", 128>>, <<"diff", 0>> >>
    /\ exit_code = 0
    /\ pc = "done"

\* filter_securities has returned
Filtered == Logged(Info("After filtering"))

Kept(security) == \E i \in DOMAIN securities : securities[i] = security

AuctionDay(security) == DateOf(parse_date(security["auctionDate"]).val)

\* C5: the filter keeps a record auctioned exactly days_back days before the
\* date of now and drops a record auctioned days_back + 1 days before it,
\* whatever the time of day of now.
C5_InclusiveDateBoundary ==
    Filtered =>
        \A i \in DOMAIN response :
            /\ AuctionDay(response[i]) = DateOf(now) - days_back
                  => Kept(response[i])
            /\ AuctionDay(response[i]) = DateOf(now) - days_back - 1
                  => ~Kept(response[i])

\* the record breaks the required-field contract
Malformed(security) ==
    \/ ~(RequiredKeys \subseteq DOMAIN security)
    \/ ~parse_date(security["announcementDate"]).ok
    \/ ~parse_date(security["auctionDate"]).ok

\* C6: a fetched record that lacks a required field or carries an unparseable
\* date makes the run fail before the write: the run never gets past the
\* calendar builder, the output file is not modified and the exit status is
\* not 0.
C6_MalformedRecordFailsRun ==
    (\E i \in DOMAIN response : Malformed(response[i])) =>
        /\ pc \in {"filter", "generate", "exit"}
        /\ exit_code # 0
        /\ file_writes = 0
        /\ output_file = PriorFile

Requested(kind) == \E k \in DOMAIN event_types : event_types[k] = kind

\* number of distinct requested kinds
NumKinds == Cardinality({event_types[k] : k \in DOMAIN event_types})

\* the record the j-th event of the calendar was made from
RecordOf(j) == securities[((j - 1) \div NumKinds) + 1]

IsEventOf(event, security, kind, label) ==
    /\ event.uid = security["cusip"]
                   \o <<"-" \o kind \o "@treasurydirect.gov">>
    /\ event.categories[2] = <<label>>
    /\ event.dtstart = DateOf(parse_date(security[kind \o "Date"]).val)

\* C7: the calendar holds, for the records in input order, one event per
\* distinct requested kind, the announcement event before the auction event,
\* whatever the order and repetition of the kinds on the command line; so it
\* has (records) x (distinct kinds) events and nothing is deduplicated:
\* records sharing a cusip give events with equal uids.
C7_EventOrder ==
    calendar # NoCalendar =>
        LET events == calendar.components
        IN /\ Len(events) = Len(securities) * NumKinds
           /\ \A i \in DOMAIN securities :
                 LET first == (i - 1) * NumKinds + 1
                     last == i * NumKinds
                 IN /\ Requested("announcement") =>
                          IsEventOf(events[first], securities[i],
                                    "announcement", "Announcement")
                    /\ Requested("auction") =>
                          IsEventOf(events[last], securities[i],
                                    "auction", "Auction")
           /\ \A i, j \in DOMAIN events :
                 (/\ RecordOf(i)["cusip"] = RecordOf(j)["cusip"]
                  /\ events[i].categories[2] = events[j].categories[2])
                     => events[i].uid = events[j].uid

C7_Witness ==
    /\ event_types = <<"auction", "announcement">>
    /\ calendar # NoCalendar
    /\ Len(securities) = 2
    /\ securities[1]["cusip"] = securities[2]["cusip"]
    /\ securities[1] # securities[2]
    /\ Len(calendar.components) = 4
    /\ calendar.components[1].uid = calendar.components[3].uid
    /\ calendar.components[2].dtstart # calendar.components[4].dtstart

\* C8: the uid of an event is made of the cusip of its record and its kind
\* and nothing else: cusip followed by "-announcement@treasurydirect.gov" for
\* an announcement event and by "-auction@treasurydirect.gov" for an auction
\* event; so events of the same kind from records with the same cusip have
\* the same uid whatever the other fields hold and whatever the clock shows.
C8_UidFromCusipAndKind ==
    calendar # NoCalendar =>
        LET events == calendar.components
        IN /\ \A j \in DOMAIN events :
                 /\ events[j].categories[2] = <<"Announcement">> =>
                       events[j].uid = RecordOf(j)["cusip"]
                           \o <<"-announcement@treasurydirect.gov">>
                 /\ events[j].categories[2] = <<"Auction">> =>
                       events[j].uid = RecordOf(j)["cusip"]
                           \o <<"-auction@treasurydirect.gov">>
                 /\ events[j].categories[2]
                       \in {<<"Announcement">>, <<"Auction">>}
           /\ \A i, j \in DOMAIN events :
                 (/\ RecordOf(i)["cusip"] = RecordOf(j)["cusip"]
                  /\ events[i].categories[2] = events[j].categories[2])
                     => events[i].uid = events[j].uid

C8_Witness ==
    /\ calendar # NoCalendar
    /\ Len(securities) = 2
    /\ securities[1] # securities[2]
    /\ Len(calendar.components) = 4
    /\ calendar.components[2].uid = <<"91282CJL6", "-auction@treasurydirect.gov">>
    /\ calendar.components[4].uid = <<"91282CJL6", "-auction@treasurydirect.gov">>
    /\ calendar.components[1].uid
          = <<"91282CJL6", "-announcement@treasurydirect.gov">>
    /\ calendar.components[2].dtstart # calendar.components[4].dtstart
    /\ calendar.components[2].summary = calendar.components[4].summary

\* text.split("\n")
RECURSIVE SplitLines(_)
SplitLines(text) ==
    IF \E i \in DOMAIN text : text[i] = "\n"
    THEN LET i == CHOOSE k \in DOMAIN text :
                     text[k] = "\n" /\ \A m \in 1..(k - 1) : text[m] # "\n"
         IN <<SubSeq(text, 1, i - 1)>>
            \o SplitLines(SubSeq(text, i + 1, Len(text)))
    ELSE <<text>>

\* the description has a line that starts with label
HasLine(event, label) ==
    \E i \in DOMAIN SplitLines(event.description) :
        LET line == SplitLines(event.description)[i]
        IN Len(line) > 0 /\ line[1] = label

\* C9: in the description of every event, a record without offeringAmount
\* gives the line "Offering Amount: $TBD"; a record without maturityDate
\* gives no maturity line; in an auction event the closing-time and
\* issue-date lines appear only when the record has the field; and no line
\* is left blank (a label with nothing after it).
C9_OptionalFields ==
    calendar # NoCalendar =>
        \A j \in DOMAIN calendar.components :
            LET event == calendar.components[j]
                security == RecordOf(j)
                lines == SplitLines(event.description)
            IN /\ "offeringAmount" \notin DOMAIN security =>
                     \E i \in DOMAIN lines :
                         lines[i] = <<"Offering Amount: $", "TBD">>
               /\ "maturityDate" \notin DOMAIN security =>
                     ~HasLine(event, "Maturity Date: ")
               /\ HasLine(event, "Competitive Closing: ") =>
                     "closingTimeCompetitive" \in DOMAIN security
               /\ HasLine(event, "Non-Competitive Closing: ") =>
                     "closingTimeNoncompetitive" \in DOMAIN security
               /\ HasLine(event, "Issue Date: ") =>
                     "issueDate" \in DOMAIN security
               /\ \A i \in DOMAIN lines : Len(lines[i]) >= 2

C9_Witness ==
    /\ Len(calendar.components) = 2
    /\ Len(securities) = 1
    /\ DOMAIN securities[1] = RequiredKeys \cup {"closingTimeCompetitive"}
    /\ securities[1]["closingTimeCompetitive"] # <<>>
    /\ HasLine(calendar.components[2], "Competitive Closing: ")
    /\ ~HasLine(calendar.components[2], "Issue Date: ")
    /\ ~HasLine(calendar.components[1], "Maturity Date: ")
    /\ \A j \in 1..2 :
          \E i \in DOMAIN SplitLines(calendar.components[j].description) :
              SplitLines(calendar.components[j].description)[i]
                  = <<"Offering Amount: $", "TBD">>
====
